---- MODULE Spec2Model ----
(***************************************************************************)
(* Model of src/src/database_manager.py: DatabaseManager.update_database   *)
(* and run_process reconciling series data into a MySQL database, one      *)
(* table per product, one row per vector, one column per period.           *)
(*                                                                         *)
(* Python strings are sequences of one-character strings.  A dict key that *)
(* may be an int or a str is a tagged pair <<"int", n>> or <<"str", s>>.    *)
(* A nullable float is <<>> (None) or <<x>>.                               *)
(***************************************************************************)
EXTENDS Integers, Sequences, FiniteSets, TLC

(***************************************************************************)
(* Bounds of the model.                                                    *)
(***************************************************************************)
\* calls of run_process in one behaviour
MaxRuns == 2
\* statements the store may fail for a reason of its own (lost connection)
MaxFaults == 1

(***************************************************************************)
(* Characters and strings.                                                 *)
(***************************************************************************)
Lower == {"a", "b", "c", "d", "e", "f", "g", "h", "i", "j", "k", "l", "m",
          "n", "o", "p", "q", "r", "s", "t", "u", "v", "w", "x", "y", "z"}

Upper == {"A", "B", "C", "D", "E", "F", "G", "H", "I", "J", "K", "L", "M",
          "N", "O", "P", "Q", "R", "S", "T", "U", "V", "W", "X", "Y", "Z"}

Digit == {"0", "1", "2", "3", "4", "5", "6", "7", "8", "9"}

\* the character class [a-zA-Z0-9_] of IDENTIFIER_PATTERN
IdentifierChars == Lower \cup Upper \cup Digit \cup {"_"}

NL == "\n"

AllIn(s, set) == \A i \in 1..Len(s) : s[i] \in set

DigitChar(d) ==
  CASE d = 0 -> "0" [] d = 1 -> "1" [] d = 2 -> "2" [] d = 3 -> "3"
    [] d = 4 -> "4" [] d = 5 -> "5" [] d = 6 -> "6" [] d = 7 -> "7"
    [] d = 8 -> "8" [] d = 9 -> "9"

RECURSIVE NatStr(_)
NatStr(n) == IF n < 10 THEN <<DigitChar(n)>>
             ELSE Append(NatStr(n \div 10), DigitChar(n % 10))

\* str(product_id): the decimal string of an int, a str unchanged
Str(id) == IF id[1] = "int"
           THEN (IF id[2] < 0 THEN <<"-">> \o NatStr(0 - id[2]) ELSE NatStr(id[2]))
           ELSE id[2]

\* IDENTIFIER_PATTERN.match(s) for ^[a-zA-Z0-9_]+$ : Python's $ matches at the
\* end of the string and also just before a newline that ends the string
IDENTIFIER_PATTERN(s) ==
  LET body == IF Len(s) > 0 /\ s[Len(s)] = NL THEN SubSeq(s, 1, Len(s) - 1) ELSE s
  IN  Len(body) > 0 /\ AllIn(body, IdentifierChars)

\* the pattern without its anchors: some character of the class occurs
UnanchoredPattern(identifier) ==
  \E i \in 1..Len(identifier) : identifier[i] \in IdentifierChars

\* _validate_identifier: TRUE when it returns, FALSE when it raises ValueError
\* (every identifier of the model is a str, so the isinstance test passes)
_validate_identifier(identifier) == IDENTIFIER_PATTERN(identifier)

(***************************************************************************)
(* The MySQL database: table name -> [comment, cols, rows].  cols are the  *)
(* period columns added after creation; every table also has the two       *)
(* columns of its CREATE TABLE.  rows: vector_id -> [definition, cells].   *)
(***************************************************************************)
None == <<>>

VectorIdColumn == <<"v", "e", "c", "t", "o", "r", "_", "i", "d">>

DefinitionColumn == <<"d", "e", "f", "i", "n", "i", "t", "i", "o", "n">>

\* the columns of CREATE TABLE (vector_id BIGINT ... PRIMARY KEY, definition TEXT)
BaseColumns == {VectorIdColumn, DefinitionColumn}

EmptyDb == [t \in {} |-> 0]

HasTable(db, t) == t \in DOMAIN db

HasRow(db, t, vid) == HasTable(db, t) /\ vid \in DOMAIN db[t].rows

HasColumn(db, t, c) == HasTable(db, t) /\ c \in db[t].cols

AllColumns(db, t) == BaseColumns \cup db[t].cols

(***************************************************************************)
(* Statements as the code builds them.                                     *)
(*   ident : how the table name enters the text: "bound" (a parameter),    *)
(*           "quoted" (interpolated inside backticks) or "bare"            *)
(*   typed : an ADD COLUMN carries a column type                           *)
(*   need  : the bind names in the text; given : the keys of the dict      *)
(***************************************************************************)
Stmt(kind, table, ident, col, typed, need, given, vid, value, txt) ==
  [kind |-> kind, table |-> table, ident |-> ident, col |-> col, typed |-> typed,
   need |-> need, given |-> given, vid |-> vid, value |-> value, txt |-> txt]

\* sqlalchemy: a bind name of text() without a value in the parameters raises
\* StatementError (an SQLAlchemyError) before anything is sent
MissingBind(q) == ~(q.need \subseteq q.given)

\* MySQL: an unquoted identifier may not consist solely of digits, and a
\* column definition needs a data type
SyntaxError(q) ==
  \/ q.ident = "bare" /\ Len(q.table) > 0 /\ AllIn(q.table, Digit)
  \/ q.kind = "ALTER" /\ ~q.typed

NewTable(comment) == [comment |-> comment, cols |-> {}, rows |-> [v \in {} |-> 0]]

NewRow(db, t, definition) ==
  [definition |-> definition, cells |-> [c \in db[t].cols |-> None]]

\* what the statement does to the database when it is well formed:
\* [err, db, res]; res is the answer of a query
Apply(q, db) ==
  LET t == q.table
      fail == [err |-> TRUE, db |-> db, res |-> None]
      ok(d, r) == [err |-> FALSE, db |-> d, res |-> r]
  IN CASE q.kind = "SELECT_TABLES" -> ok(db, <<HasTable(db, t)>>)
       [] q.kind = "SELECT_COLUMNS" ->
            ok(db, <<HasTable(db, t) /\ q.col \in AllColumns(db, t)>>)
       [] q.kind = "CREATE" ->
            IF HasTable(db, t) THEN fail
            ELSE ok([x \in DOMAIN db \cup {t} |->
                      IF x = t THEN NewTable(q.txt) ELSE db[x]], None)
       [] q.kind = "SELECT_VECTOR" ->
            IF ~HasTable(db, t) THEN fail ELSE ok(db, <<HasRow(db, t, q.vid)>>)
       [] q.kind = "INSERT" ->
            IF ~HasTable(db, t) \/ HasRow(db, t, q.vid) THEN fail
            ELSE ok([db EXCEPT ![t].rows =
                      [v \in DOMAIN db[t].rows \cup {q.vid} |->
                        IF v = q.vid THEN NewRow(db, t, q.txt) ELSE db[t].rows[v]]],
                    None)
       [] q.kind = "ALTER" ->
            IF ~HasTable(db, t) \/ q.col \in AllColumns(db, t) THEN fail
            ELSE ok([db EXCEPT ![t].cols = @ \cup {q.col},
                               ![t].rows = [v \in DOMAIN @ |->
                                 [@[v] EXCEPT !.cells =
                                   [c \in db[t].cols \cup {q.col} |->
                                     IF c = q.col THEN None ELSE db[t].rows[v].cells[c]]]]],
                    None)
       [] q.kind = "UPDATE" ->
            IF ~HasColumn(db, t, q.col) THEN fail
            ELSE IF ~HasRow(db, t, q.vid) THEN ok(db, None)
            ELSE ok([db EXCEPT ![t].rows[q.vid].cells[q.col] = q.value], None)
       [] q.kind = "SELECT_VALUE" ->
            IF ~HasColumn(db, t, q.col) THEN fail
            ELSE IF ~HasRow(db, t, q.vid) THEN ok(db, <<>>)
            ELSE ok(db, <<db[t].rows[q.vid].cells[q.col]>>)

(***************************************************************************)
(* A DatabaseManager together with the database it is connected to:        *)
(*   m = [db, stats, ops, faults]                                          *)
(* ops is the log of the statements handed to conn.execute, in order;      *)
(* faults counts the statements the store failed for a reason of its own.  *)
(* Every method returns [m, exc, ret]: the manager afterwards, the         *)
(* exception raised ("none" when it returns) and the value returned.       *)
(***************************************************************************)
ZeroStats == [tables_created |-> 0, vectors_added |-> 0, columns_added |-> 0,
              values_added |-> 0, values_updated |-> 0]

Returns(m, ret) == [m |-> m, exc |-> "none", ret |-> ret]

Raises(m, exc) == [m |-> m, exc |-> exc, ret |-> None]

OpEntry(q, sent, ok) ==
  [kind |-> q.kind, table |-> q.table, col |-> q.col, vid |-> q.vid,
   value |-> q.value, sent |-> sent, ok |-> ok]

\* conn.execute(query, params) followed by conn.commit() when it returned:
\* [m, err, res].  f: the store fails this statement (if it still may)
Execute(m, q, f) ==
  LET sent    == ~MissingBind(q)
      faulted == sent /\ f /\ m.faults < MaxFaults
      r       == IF ~sent \/ faulted \/ SyntaxError(q)
                 THEN [err |-> TRUE, db |-> m.db, res |-> None]
                 ELSE Apply(q, m.db)
  IN [m   |-> [m EXCEPT !.db = r.db,
                        !.ops = Append(@, OpEntry(q, sent, ~r.err)),
                        !.faults = IF faulted THEN @ + 1 ELSE @],
      err |-> r.err,
      res |-> r.res]

\* _table_exists: a failed query is logged and answered False
_table_exists(m, table_name, f) ==
  IF ~_validate_identifier(table_name) THEN Raises(m, "ValueError")
  ELSE LET q == Stmt("SELECT_TABLES", table_name, "bound", None, FALSE,
                     {"db_name", "table_name"}, {"db_name", "table_name"},
                     None, None, None)
           r == Execute(m, q, f)
       IN IF r.err THEN Returns(r.m, FALSE) ELSE Returns(r.m, r.res[1])

\* _vector_exists: the table name is interpolated without backticks; a failed
\* query is logged and answered False
_vector_exists(m, table_name, vector_id, f) ==
  IF ~_validate_identifier(table_name) THEN Raises(m, "ValueError")
  ELSE LET q == Stmt("SELECT_VECTOR", table_name, "bare", None, FALSE,
                     {"vector_id"}, {"vector_id"}, vector_id, None, None)
           r == Execute(m, q, f)
       IN IF r.err THEN Returns(r.m, FALSE) ELSE Returns(r.m, r.res[1])

\* _column_exists: the text binds :date, the parameters give column_name; a
\* failed query is logged and answered False
_column_exists(m, table_name, date, f) ==
  IF ~_validate_identifier(table_name) \/ ~_validate_identifier(date)
  THEN Raises(m, "ValueError")
  ELSE LET q == Stmt("SELECT_COLUMNS", table_name, "bound", date, FALSE,
                     {"table_name", "date"}, {"table_name", "column_name"},
                     None, None, None)
           r == Execute(m, q, f)
       IN IF r.err THEN Returns(r.m, FALSE) ELSE Returns(r.m, r.res[1])

\* _values_match; its except clause binds no name and then formats e
_values_match(m, table_name, vector_id, date, value, f) ==
  IF ~_validate_identifier(table_name) \/ ~_validate_identifier(date)
  THEN Raises(m, "ValueError")
  ELSE LET q == Stmt("SELECT_VALUE", table_name, "quoted", date, FALSE,
                     {"vector_id"}, {"vector_id"}, vector_id, None, None)
           r == Execute(m, q, f)
       IN IF r.err THEN Raises(r.m, "NameError")
          ELSE IF r.res = <<>> THEN Returns(r.m, FALSE)
          ELSE Returns(r.m, r.res[1] = value)

\* definition.replace("'", "''")
RECURSIVE DoubleQuotes(_)
DoubleQuotes(d) ==
  IF d = <<>> THEN <<>>
  ELSE (IF Head(d) = "'" THEN <<"'", "'">> ELSE <<Head(d)>>) \o DoubleQuotes(Tail(d))

NoDefinition == <<"N", "o", " ", "D", "e", "f", "i", "n", "i", "t", "i", "o", "n">>

\* _create_table replacing the table whether or not it exists
CreateOrReplaceTable(m, table_name, definition, f1, f2) ==
  IF ~_validate_identifier(table_name) THEN Raises(m, "ValueError")
  ELSE Returns([m EXCEPT
                  !.db = [x \in DOMAIN m.db \cup {table_name} |->
                           IF x = table_name THEN NewTable(DoubleQuotes(definition))
                           ELSE m.db[x]],
                  !.stats.tables_created = @ + 1], None)

\* _create_table; its except clause binds no name and then formats e
_create_table(m, table_name, definition, f1, f2) ==
  IF ~_validate_identifier(table_name) THEN Raises(m, "ValueError")
  ELSE LET te == _table_exists(m, table_name, f1)
       IN IF te.exc # "none" THEN te
          ELSE IF te.ret THEN Returns(te.m, None)
          ELSE LET q == Stmt("CREATE", table_name, "quoted", None, FALSE,
                             {"definition"}, {"definition"}, None, None,
                             DoubleQuotes(definition))
                   r == Execute(te.m, q, f2)
               IN IF r.err THEN Raises(r.m, "NameError")
                  ELSE Returns([r.m EXCEPT !.stats.tables_created = @ + 1], None)

\* _add_vector counting before the insert is executed
AddVectorCountsFirst(m, table_name, vector_id, definition, f) ==
  IF ~_validate_identifier(table_name) THEN Raises(m, "ValueError")
  ELSE LET counted == [m EXCEPT !.stats.vectors_added = @ + 1]
           q == Stmt("INSERT", table_name, "quoted", None, FALSE,
                     {"vector_id", "definition"}, {"vector_id", "definition"},
                     vector_id, None,
                     IF definition = <<>> THEN NoDefinition ELSE definition)
           r == Execute(counted, q, f)
       IN IF r.err THEN Raises(r.m, "SQLAlchemyError") ELSE Returns(r.m, None)

\* _add_vector: vectors_added is counted after the commit
_add_vector(m, table_name, vector_id, definition, f) ==
  IF ~_validate_identifier(table_name) THEN Raises(m, "ValueError")
  ELSE LET q == Stmt("INSERT", table_name, "quoted", None, FALSE,
                     {"vector_id", "definition"}, {"vector_id", "definition"},
                     vector_id, None,
                     IF definition = <<>> THEN NoDefinition ELSE definition)
           r == Execute(m, q, f)
       IN IF r.err THEN Raises(r.m, "SQLAlchemyError")
          ELSE Returns([r.m EXCEPT !.stats.vectors_added = @ + 1], None)

\* _add_column counting the column before the statement is executed
AddColumnCountsFirst(m, table_name, date, f) ==
  IF ~_validate_identifier(table_name) \/ ~_validate_identifier(date)
  THEN Raises(m, "ValueError")
  ELSE LET counted == [m EXCEPT !.stats.columns_added = @ + 1]
           q == Stmt("ALTER", table_name, "quoted", date, FALSE,
                     {}, {}, None, None, None)
           r == Execute(counted, q, f)
       IN IF r.err THEN Raises(r.m, "SQLAlchemyError") ELSE Returns(r.m, None)

\* _add_column: the ADD COLUMN names no column type
_add_column(m, table_name, date, f) ==
  IF ~_validate_identifier(table_name) \/ ~_validate_identifier(date)
  THEN Raises(m, "ValueError")
  ELSE LET q == Stmt("ALTER", table_name, "quoted", date, FALSE,
                     {}, {}, None, None, None)
           r == Execute(m, q, f)
       IN IF r.err THEN Raises(r.m, "SQLAlchemyError")
          ELSE Returns([r.m EXCEPT !.stats.columns_added = @ + 1], None)

\* _update_value: the text binds :value, the parameters give date
_update_value(m, table_name, vector_id, date, value, f) ==
  IF ~_validate_identifier(table_name) \/ ~_validate_identifier(date)
  THEN Raises(m, "ValueError")
  ELSE LET q == Stmt("UPDATE", table_name, "quoted", date, FALSE,
                     {"value", "vector_id"}, {"date", "vector_id"},
                     vector_id, value, None)
           r == Execute(m, q, f)
       IN IF r.err THEN Raises(r.m, "SQLAlchemyError") ELSE Returns(r.m, None)

(***************************************************************************)
(* The bodies of the three loops of update_database.                       *)
(***************************************************************************)
\* a key the dict does not hold: dict.get(key, default) gives the default
Absent == <<"<absent>">>

DictGet(found, default) == IF found = Absent THEN default ELSE found

\* the loop body without the try around _validate_identifier(date)
ProcessSeriesNoCatch(m, table_name, vector_id, date, value, f1, f2, f3) ==
  LET ce == _column_exists(m, table_name, date, f1)
  IN IF ce.exc # "none" THEN ce
     ELSE LET ac == _add_column(ce.m, table_name, date, f2)
          IN IF ac.exc # "none" THEN ac
             ELSE _update_value(ac.m, table_name, vector_id, date, value, f3)

\* the body of `for date, value in series.items()` of _process_series
_process_series(m, table_name, vector_id, date, value, f1, f2, f3) ==
  IF ~_validate_identifier(date) THEN Returns(m, None)
  ELSE LET ce == _column_exists(m, table_name, date, f1)
       IN IF ce.exc # "none" THEN ce
          ELSE IF ~ce.ret
          THEN LET ac == _add_column(ce.m, table_name, date, f2)
               IN IF ac.exc # "none" THEN ac
                  ELSE LET uv == _update_value(ac.m, table_name, vector_id, date, value, f3)
                       IN IF uv.exc # "none" THEN uv
                          ELSE Returns([uv.m EXCEPT !.stats.values_added = @ + 1], None)
          ELSE LET vm == _values_match(ce.m, table_name, vector_id, date, value, f2)
               IN IF vm.exc # "none" THEN vm
                  ELSE IF vm.ret THEN Returns(vm.m, None)
                  ELSE LET uv == _update_value(vm.m, table_name, vector_id, date, value, f3)
                       IN IF uv.exc # "none" THEN uv
                          ELSE Returns([uv.m EXCEPT !.stats.values_updated = @ + 1], None)

\* _process_vector working on one fixed table instead of table_name
ProcessVectorStaleTable(m, table_name, vector_id, found, f1, f2) ==
  LET stale == <<"t", "1">>
      ve == _vector_exists(m, stale, vector_id, f1)
  IN IF ve.exc # "none" THEN ve
     ELSE IF ve.ret THEN Returns(ve.m, FALSE)
     ELSE LET av == _add_vector(ve.m, stale, vector_id,
                              DictGet(found, NoDefinition), f2)
          IN [av EXCEPT !.ret = TRUE]

\* _process_vector up to its call of _process_series; found is what the
\* definitions hold for vector_id.  ret: the definitions were consulted
_process_vector(m, table_name, vector_id, found, f1, f2) ==
  LET ve == _vector_exists(m, table_name, vector_id, f1)
  IN IF ve.exc # "none" THEN ve
     ELSE IF ve.ret THEN Returns(ve.m, FALSE)
     ELSE LET av == _add_vector(ve.m, table_name, vector_id,
                              DictGet(found, NoDefinition), f2)
          IN [av EXCEPT !.ret = TRUE]

\* the body of `for product_id, vectors in data.items()` up to the loop over
\* the vectors; found is what the definitions hold for product_id.
\* ret: "skip" (continue with the next product) or "enter"
update_database(m, product_id, found, f1, f2) ==
  LET table_name == Str(product_id)
  IN IF ~_validate_identifier(table_name) THEN Returns(m, "skip")
     ELSE LET ct == _create_table(m, table_name, DictGet(found, NoDefinition), f1, f2)
          IN [ct EXCEPT !.ret = "enter"]

(***************************************************************************)
(* Inputs.  data is a fixed dict of dicts, but the model fixes an entry    *)
(* only when a loop first reaches it: what a run never reads cannot        *)
(* influence it.  data = [items, closed]: the entries read so far and      *)
(* whether the dict ends there; likewise for every product and vector.     *)
(***************************************************************************)
T1 == <<"t", "1">>

DropId == <<"9", "8", ";", "D", "R", "O", "P">>

ProductIds == {<<"int", 98>>, <<"str", T1>>, <<"str", DropId>>}

VectorIds == {1, 0 - 5}

D2020 == <<"2", "0", "2", "0">>

DashDate == <<"2", "0", "-", "2", "0">>

NewlineDate == <<"2", "0", "2", "0", NL>>

\* the (date, value) entries a series may hold
PeriodEntries ==
  {[date |-> D2020, value |-> <<1>>], [date |-> D2020, value |-> <<2>>],
   [date |-> D2020, value |-> None], [date |-> DashDate, value |-> <<1>>],
   [date |-> NewlineDate, value |-> <<1>>]}

Gdp == <<"G", "D", "P">>

GdpVector == <<"G", "D", "P", " ", "V", "e", "c", "t", "o", "r">>

\* a definition with an apostrophe in it: Farmers' income
FarmersIncome ==
  <<"F", "a", "r", "m", "e", "r", "s", "'", " ", "i", "n", "c", "o", "m", "e">>

\* the definitions dict: an entry for product 98 and for vector 1, none for
\* the other ids
DefinitionDicts ==
  {[k \in {<<"int", 98>>, <<"int", 1>>} |->
     IF k[2] = 98 THEN FarmersIncome ELSE GdpVector]}

\* what the database may hold when the program connects to it: two tables
\* with the column 2020, table t1 with a row for vector 1 and table 98 with
\* a row for a vector that the data no longer holds
PriorDb ==
  [t \in {NatStr(98), T1} |->
     [comment |-> Gdp, cols |-> {D2020},
      rows |-> [v \in (IF t = T1 THEN {1} ELSE {2}) |->
                 [definition |-> Gdp, cells |-> [c \in {D2020} |-> <<1>>]]]]]

InitialDbs == {EmptyDb, PriorDb}

VARIABLES
  tables,       \* the database
  data,         \* the data dict, as far as read
  definitions,  \* the definitions dict
  run,          \* calls of run_process so far
  pc,           \* "idle", "collections", "vectors", "series", "done", "aborted",
                \* "unconnected" (the constructor raised)
  ci, si, pi,   \* products, vectors of the product, periods of the vector read in this run
  stats,        \* self.stats of the manager of this run
  ops,          \* statements executed in this run
  faults,       \* statements the store failed for a reason of its own
  raised,       \* the exception update_database raised in this run, or "none"
  summary,      \* what _log_stats logged in this run: <<>> or <<stats>>
  store0,       \* the database when this run started
  prev,         \* the previous run: how it ended, what it executed, on which database
  changed,      \* positions <<ci, si, pi>> whose value differs from the previous run's
  closes        \* calls of close_connection in this run

vars == <<tables, data, definitions, run, pc, ci, si, pi, stats, ops, faults,
          raised, summary, store0, prev, changed, closes>>

M == [db |-> tables, stats |-> stats, ops |-> ops, faults |-> faults]

NoRun == [outcome |-> "none", stats |-> ZeroStats, faults |-> 0, ops |-> <<>>,
          store0 |-> EmptyDb]

Init ==
  /\ tables \in InitialDbs
  /\ data = [items |-> <<>>, closed |-> FALSE]
  /\ definitions \in DefinitionDicts
  /\ run = 0
  /\ pc = "idle"
  /\ ci = 0 /\ si = 0 /\ pi = 0
  /\ stats = ZeroStats
  /\ ops = <<>>
  /\ faults = 0
  /\ raised = "none"
  /\ summary = <<>>
  /\ store0 = tables
  /\ prev = NoRun
  /\ changed = {}
  /\ closes = 0

Ids(items) == {items[i].id : i \in 1..Len(items)}

DatesOf(items) == {items[i].date : i \in 1..Len(items)}

\* definitions.get(key, Absent)
Lookup(key) == IF key \in DOMAIN definitions THEN definitions[key] ELSE Absent

\* close_connection: _engine is set whenever the constructor has returned,
\* so the engine is disposed; n counts the calls
close_connection(n) == n + 1

\* close_connection called only when no exception came out of the try block
CloseOnSuccessOnly(db, exc, n) == IF db /\ exc = "none" THEN close_connection(n) ELSE n

\* the finally of run_process: if db: db.close_connection(); db is None
\* (FALSE here) when the constructor raised.  The exception exc, if any, is
\* re-raised by the except clauses before the finally runs and reaches the
\* caller after it
RunProcessFinally(db, exc, n) == IF db THEN close_connection(n) ELSE n

\* the manager after a loop body; an exception ends update_database, and
\* with it run_process
Step(r, nextpc) ==
  /\ tables' = r.m.db
  /\ stats' = r.m.stats
  /\ ops' = r.m.ops
  /\ faults' = r.m.faults
  /\ raised' = r.exc
  /\ pc' = IF r.exc = "none" THEN nextpc ELSE "aborted"
  /\ closes' = IF r.exc = "none" THEN closes ELSE RunProcessFinally(TRUE, r.exc, closes)

\* what DatabaseManager(database_config_path) may raise: nothing, or the
\* error of its first connect (a failure of the store, counted in faults)
ConstructorOutcomes == {"none", "SQLAlchemyError"}

\* run_process: a new DatabaseManager, then update_database; when the
\* constructor raises, db stays None, the error is re-raised and the finally
\* closes nothing
run_process ==
  /\ pc \in {"idle", "done", "aborted", "unconnected"}
  /\ run < MaxRuns
  /\ run' = run + 1
  /\ prev' = IF run = 0 THEN NoRun
             ELSE [outcome |-> pc, stats |-> stats, faults |-> faults,
                   \* what the run executed is kept only if the store failed nothing
                   ops |-> IF faults = 0 THEN ops ELSE <<>>,
                   store0 |-> IF faults = 0 THEN store0 ELSE EmptyDb]
  /\ store0' = tables
  /\ stats' = ZeroStats
  /\ ops' = <<>>
  /\ summary' = <<>>
  /\ changed' = {}
  /\ ci' = 0 /\ si' = 0 /\ pi' = 0
  /\ \E exc \in ConstructorOutcomes :
       /\ exc # "none" => faults < MaxFaults
       /\ faults' = IF exc = "none" THEN faults ELSE faults + 1
       /\ raised' = exc
       /\ pc' = IF exc = "none" THEN "collections" ELSE "unconnected"
       /\ closes' = IF exc = "none" THEN 0 ELSE RunProcessFinally(FALSE, exc, 0)
  /\ UNCHANGED <<tables, data, definitions>>

\* one iteration of the loop over data.items()
NextProduct ==
  /\ pc = "collections"
  /\ \E id \in ProductIds, f1, f2 \in BOOLEAN :
       /\ IF ci < Len(data.items) THEN id = data.items[ci + 1].id
          ELSE ~data.closed /\ id \notin Ids(data.items)
       /\ data' = IF ci < Len(data.items) THEN data
                  ELSE [data EXCEPT !.items =
                         Append(@, [id |-> id, items |-> <<>>, closed |-> FALSE])]
       /\ LET r == update_database(M, id, Lookup(id), f1, f2)
          IN Step(r, IF r.ret = "skip" THEN "collections" ELSE "vectors")
  /\ ci' = ci + 1
  /\ si' = 0
  /\ UNCHANGED <<definitions, run, pi, summary, store0, prev, changed>>

\* the loop over data.items() is exhausted: _log_stats, update_database returns
EndOfData ==
  /\ pc = "collections"
  /\ ci = Len(data.items)
  /\ data' = [data EXCEPT !.closed = TRUE]
  /\ summary' = <<stats>>
  /\ pc' = "done"
  /\ closes' = RunProcessFinally(TRUE, "none", closes)
  /\ UNCHANGED <<tables, definitions, run, ci, si, pi, stats, ops, faults, raised,
                 store0, prev, changed>>

\* one iteration of the loop over vectors.items(): _process_vector up to _process_series
NextVector ==
  /\ pc = "vectors"
  /\ LET c == data.items[ci]
     IN \E id \in VectorIds, f1, f2 \in BOOLEAN :
          /\ IF si < Len(c.items) THEN id = c.items[si + 1].id
             ELSE ~c.closed /\ id \notin Ids(c.items)
          /\ data' = IF si < Len(c.items) THEN data
                     ELSE [data EXCEPT !.items[ci].items =
                            Append(@, [id |-> id, items |-> <<>>, closed |-> FALSE])]
          /\ Step(_process_vector(M, Str(c.id), id, Lookup(<<"int", id>>), f1, f2),
                  "series")
  /\ si' = si + 1
  /\ pi' = 0
  /\ UNCHANGED <<definitions, run, ci, summary, store0, prev, changed>>

\* the loop over vectors.items() is exhausted
EndOfVectors ==
  /\ pc = "vectors"
  /\ si = Len(data.items[ci].items)
  /\ data' = [data EXCEPT !.items[ci].closed = TRUE]
  /\ pc' = "collections"
  /\ UNCHANGED <<tables, definitions, run, ci, si, pi, stats, ops, faults, raised,
                 summary, store0, prev, changed, closes>>

\* one iteration of the loop over series.items() in _process_series; a later
\* run may be given another value for a period it was given before
NextPeriod ==
  /\ pc = "series"
  /\ LET v == data.items[ci].items[si]
     IN \E e \in PeriodEntries, f1, f2, f3 \in BOOLEAN :
          /\ IF pi < Len(v.items) THEN e.date = v.items[pi + 1].date
             ELSE ~v.closed /\ e.date \notin DatesOf(v.items)
          /\ data' = IF pi < Len(v.items)
                     THEN [data EXCEPT !.items[ci].items[si].items[pi + 1] = e]
                     ELSE [data EXCEPT !.items[ci].items[si].items = Append(@, e)]
          /\ changed' = IF pi < Len(v.items) /\ v.items[pi + 1] # e
                        THEN changed \cup {<<ci, si, pi + 1>>} ELSE changed
          /\ Step(_process_series(M, Str(data.items[ci].id), v.id, e.date, e.value,
                                f1, f2, f3),
                  "series")
  /\ pi' = pi + 1
  /\ UNCHANGED <<definitions, run, ci, si, summary, store0, prev>>

\* the loop over series.items() is exhausted: _process_series returns
EndOfSeries ==
  /\ pc = "series"
  /\ pi = Len(data.items[ci].items[si].items)
  /\ data' = [data EXCEPT !.items[ci].items[si].closed = TRUE]
  /\ pc' = "vectors"
  /\ UNCHANGED <<tables, definitions, run, ci, si, pi, stats, ops, faults, raised,
                 summary, store0, prev, changed, closes>>

Next ==
  \/ run_process
  \/ NextProduct
  \/ EndOfData
  \/ NextVector
  \/ EndOfVectors
  \/ NextPeriod
  \/ EndOfSeries

Spec == Init /\ [][Next]_vars

(***************************************************************************)
(* A caller that constructs one DatabaseManager and calls update_database  *)
(* on it again and again, in place of run_process's manager per call.      *)
(***************************************************************************)
\* self.stats with every counter back at 0
ResetOnEntry(s) == ZeroStats

\* self.stats as update_database finds it on entry: it assigns nothing to
\* self.stats before its loop, the counters are those __init__ or the
\* earlier calls left
StatsOnEntry(s) == s

\* the first call: the manager is constructed, as in run_process
FirstCall == run = 0 /\ run_process

\* a further call of update_database on the same manager
update_database_again ==
  /\ pc \in {"done", "aborted"}
  /\ run < MaxRuns
  /\ run' = run + 1
  /\ prev' = [outcome |-> pc, stats |-> stats, faults |-> faults,
              ops |-> IF faults = 0 THEN ops ELSE <<>>,
              store0 |-> IF faults = 0 THEN store0 ELSE EmptyDb]
  /\ store0' = tables
  /\ stats' = StatsOnEntry(stats)
  /\ ops' = <<>>
  /\ raised' = "none"
  /\ summary' = <<>>
  /\ changed' = {}
  /\ ci' = 0 /\ si' = 0 /\ pi' = 0
  /\ pc' = "collections"
  /\ UNCHANGED <<tables, data, definitions, faults, closes>>

NextSameManager ==
  \/ FirstCall
  \/ update_database_again
  \/ NextProduct
  \/ EndOfData
  \/ NextVector
  \/ EndOfVectors
  \/ NextPeriod
  \/ EndOfSeries

SpecSameManager == Init /\ [][NextSameManager]_vars

(***************************************************************************)
(* Properties.                                                             *)
(***************************************************************************)
\* update_database has returned or raised
RunOver == pc \in {"done", "aborted"}

\* the identifier grammar: one or more characters of the allow-list
Grammar(s) == Len(s) > 0 /\ AllIn(s, IdentifierChars)

Mutating == {"CREATE", "INSERT", "ALTER", "UPDATE"}

\* the statements executed by the step just taken
NewOps == SubSeq(ops', Len(ops) + 1, Len(ops'))

\* the cell (vid, date) of table t is in database db
HasCell(db, t, vid, date) == HasRow(db, t, vid) /\ HasColumn(db, t, date)

\* every vector id read from the data has a decimal string of the grammar
VectorIdsValid ==
  \A i \in 1..Len(data.items) : \A j \in 1..Len(data.items[i].items) :
    Grammar(Str(<<"int", data.items[i].items[j].id>>))

\* C1: when a run has completed and update_database is run again with the
\* same data and definitions, the five counters of the second run are all 0
\* when it ends.
IdempotentCounters ==
  (run >= 2 /\ prev.outcome = "done" /\ changed = {} /\ RunOver) => stats = ZeroStats

\* a second run that completed with nothing counted, after a first run that
\* created a table and a row
IdempotentCountersWitness ==
  /\ run = 2 /\ pc = "done" /\ changed = {} /\ faults = 0
  /\ prev.outcome = "done"
  /\ prev.stats.tables_created >= 1 /\ prev.stats.vectors_added >= 1
  /\ stats = ZeroStats
  /\ summary = <<ZeroStats>>

\* C2: in a run on the input of a completed run, on a store that fails no
\* statement, no create table, insert, add column or update is executed and
\* the database stays as the first run left it (stated for data whose
\* vector ids are of the grammar).
NoMutationOnRerun ==
  (run >= 2 /\ prev.outcome = "done" /\ changed = {} /\ faults = 0 /\ VectorIdsValid) =>
    /\ \A i \in 1..Len(ops) : ops[i].kind \notin Mutating
    /\ tables = store0

\* C3: once update_database has ended on a store that failed no statement,
\* every product of the data with a name of the grammar has its table, every
\* vector under it its row, and every period of the grammar under that its
\* column, the cell holding the value supplied (stated for data whose vector
\* ids are of the grammar).
Completeness ==
  (RunOver /\ faults = 0 /\ VectorIdsValid) =>
    \A i \in 1..Len(data.items) :
      LET c == data.items[i]
          t == Str(c.id)
      IN Grammar(t) =>
           /\ HasTable(tables, t)
           /\ \A j \in 1..Len(c.items) :
                /\ HasRow(tables, t, c.items[j].id)
                /\ \A k \in 1..Len(c.items[j].items) :
                     LET e == c.items[j].items[k]
                     IN Grammar(e.date) =>
                          /\ HasColumn(tables, t, e.date)
                          /\ tables[t].rows[c.items[j].id].cells[e.date] = e.value

\* C4: when _process_series handles a period whose column already exists (on
\* a store that fails no statement), it executes no update and leaves
\* values_updated alone if the value supplied equals the value stored, and
\* executes exactly one update of that cell and adds 1 to values_updated if
\* it differs.
UpdateOnlyOnChange ==
  [][ (pc = "series" /\ pi' = pi + 1 /\ faults' = 0) =>
        LET t == Str(data'.items[ci].id)
            v == data'.items[ci].items[si]
            e == v.items[pi']
            updates == {i \in 1..Len(NewOps) :
                          /\ NewOps[i].kind = "UPDATE" /\ NewOps[i].table = t
                          /\ NewOps[i].vid = v.id /\ NewOps[i].col = e.date}
        IN (HasCell(tables, t, v.id, e.date) /\ Grammar(Str(<<"int", v.id>>))) =>
             IF tables[t].rows[v.id].cells[e.date] = e.value
             THEN updates = {} /\ stats'.values_updated = stats.values_updated
             ELSE Cardinality(updates) = 1
                  /\ stats'.values_updated = stats.values_updated + 1 ]_vars

\* C5: the first run on an empty database, with one product holding one
\* vector whose n periods are all of the grammar, on a store that fails no
\* statement, ends returned, with the table, the row and the n cells stored
\* and the counters 1, 1, n, n, 0.
FirstRunCounters ==
  ( /\ run = 1 /\ store0 = EmptyDb /\ faults = 0 /\ RunOver
    /\ Len(data.items) = 1 /\ Grammar(Str(data.items[1].id))
    /\ Len(data.items[1].items) = 1 /\ VectorIdsValid
    /\ \A k \in 1..Len(data.items[1].items[1].items) :
         Grammar(data.items[1].items[1].items[k].date) ) =>
    LET t == Str(data.items[1].id)
        v == data.items[1].items[1]
        n == Len(v.items)
    IN /\ pc = "done"
       /\ stats = [tables_created |-> 1, vectors_added |-> 1, columns_added |-> n,
                   values_added |-> n, values_updated |-> 0]
       /\ \A k \in 1..n : /\ HasCell(tables, t, v.id, v.items[k].date)
                          /\ tables[t].rows[v.id].cells[v.items[k].date] = v.items[k].value

\* the database db holds every product, vector and period read from the data
\* whose name is of the grammar, the cells with the values supplied except
\* exactly those at the changed positions
StoredExceptChanged(db) ==
  \A i \in 1..Len(data.items) :
    LET c == data.items[i]
        t == Str(c.id)
    IN Grammar(t) =>
         /\ HasTable(db, t)
         /\ \A j \in 1..Len(c.items) :
              /\ HasRow(db, t, c.items[j].id)
              /\ \A k \in 1..Len(c.items[j].items) :
                   LET e == c.items[j].items[k]
                   IN Grammar(e.date) =>
                        /\ HasColumn(db, t, e.date)
                        /\ (db[t].rows[c.items[j].id].cells[e.date] # e.value)
                             <=> (<<i, j, k>> \in changed)

\* C6: a run after another run, on a store that fails no statement, given the
\* input already stored except for k values that are changed, ends with
\* values_updated = k and the other four counters 0 (stated for data whose
\* vector ids are of the grammar).
RerunWithChanges ==
  ( /\ run >= 2 /\ faults = 0 /\ RunOver /\ changed # {} /\ VectorIdsValid
    /\ StoredExceptChanged(store0) ) =>
    stats = [ZeroStats EXCEPT !.values_updated = Cardinality(changed)]

InvalidSeriesSkipped ==
  /\ \A i \in 1..Len(ops) :
       ops[i].kind = "INSERT" => Grammar(Str(<<"int", ops[i].vid>>))
  /\ \A t \in DOMAIN tables :
       \A vid \in DOMAIN tables[t].rows : Grammar(Str(<<"int", vid>>))

\* C10: no statement reaches the store with a table name or column name
\* outside the grammar, and no table or column of the database has such a name.
ValidatedBeforeUse ==
  /\ \A i \in 1..Len(ops) :
       ops[i].sent => /\ Grammar(ops[i].table)
                      /\ ops[i].col # None => Grammar(ops[i].col)
  /\ \A t \in DOMAIN tables :
       Grammar(t) /\ \A c \in tables[t].cols : Grammar(c)

\* C11: when update_database has raised, the database is what it was when
\* the run started: tables, rows, columns and values.
RolledBackOnFailure == pc = "aborted" => tables = store0

\* the statements of this run that changed the database and were committed
\* (conn.commit() follows each of them)
Committed == {i \in 1..Len(ops) : ops[i].kind \in Mutating /\ ops[i].ok}

\* C12: a run that has returned committed exactly once, and while a run is
\* under way nothing it wrote is in the database yet.
SingleCommit ==
  /\ pc = "done" => Cardinality(Committed) = 1
  /\ pc \in {"collections", "vectors", "series"} => tables = store0

\* C13: when update_database has ended, returned or raised, the summary of
\* the five counters has been logged.
SummaryOnEveryExit == RunOver => summary = <<stats>>

\* the number of statements of the given kind that this manager executed
\* and committed
CommittedOf(kind) ==
  Cardinality({i \in 1..Len(ops) : ops[i].kind = kind /\ ops[i].ok})

\* C14: in every state, also after an abort, tables_created, vectors_added
\* and columns_added are the numbers of committed table creations, row
\* inserts and column additions of this manager, and values_added plus
\* values_updated is the number of its committed cell updates; a failed
\* statement is never counted.
CountersReflectCommitted ==
  /\ stats.tables_created = CommittedOf("CREATE")
  /\ stats.vectors_added = CommittedOf("INSERT")
  /\ stats.columns_added = CommittedOf("ALTER")
  /\ stats.values_added + stats.values_updated = CommittedOf("UPDATE")

\* a run aborted by a failed statement after it committed a table and a row:
\* the two are counted, the failed statement is not
CountersReflectCommittedWitness ==
  /\ pc = "aborted"
  /\ stats.tables_created = 1 /\ stats.vectors_added = 1
  /\ Len(ops) > 0 /\ ops[Len(ops)].kind \in Mutating /\ ~ops[Len(ops)].ok
  /\ stats.columns_added = 0 /\ stats.values_added = 0 /\ stats.values_updated = 0

\* the catalog reads: table exists, row exists, column exists, read value
CatalogReads == {"SELECT_TABLES", "SELECT_VECTOR", "SELECT_COLUMNS", "SELECT_VALUE"}

\* C15: when the store fails a catalog read, no further statement follows it
\* and update_database raises: the read gives no answer to act on.
CatalogReadFailuresFatal ==
  [][ \A i \in 1..Len(NewOps) :
        (NewOps[i].kind \in CatalogReads /\ NewOps[i].sent /\ ~NewOps[i].ok) =>
          (i = Len(NewOps) /\ pc' = "aborted") ]_vars

\* C16: a write that failed at the store is the last statement of its run,
\* and update_database has raised the database error to its caller.
WriteFailuresFatal ==
  \A i \in 1..Len(ops) :
    (ops[i].kind \in Mutating /\ ops[i].sent /\ ~ops[i].ok) =>
      (i = Len(ops) /\ pc = "aborted" /\ raised = "SQLAlchemyError")

\* valid column names to ask _column_exists about
ColumnNames == {D2020, VectorIdColumn}

\* C17: where _process_series calls it, on a store that fails no statement,
\* _column_exists(table, column) answers true exactly when the table has a
\* column of that name, for every valid column name.
ColumnExistsCorrect ==
  pc = "series" =>
    LET t == Str(data.items[ci].id)
    IN \A c \in ColumnNames :
         (HasTable(tables, t) /\ _validate_identifier(c)) =>
           LET r == _column_exists(M, t, c, FALSE)
           IN r.exc = "none" /\ (r.ret <=> c \in AllColumns(tables, t))

\* C18: no step drops a table, deletes a row or removes a column: the
\* tables, the rows of each table and the columns of each table only grow.
NoDeletion ==
  [][ \A t \in DOMAIN tables :
        /\ t \in DOMAIN tables'
        /\ DOMAIN tables[t].rows \subseteq DOMAIN tables'[t].rows
        /\ tables[t].cols \subseteq tables'[t].cols ]_vars

\* a second run that added a table and a row to a database whose earlier
\* tables and rows are all still there
NoDeletionWitness ==
  /\ run = 2 /\ RunOver
  /\ DOMAIN store0 # {}
  /\ \E t \in DOMAIN store0 : DOMAIN store0[t].rows # {}
  /\ \E t \in DOMAIN tables \ DOMAIN store0 : DOMAIN tables[t].rows # {}
  /\ \A t \in DOMAIN store0 :
       /\ t \in DOMAIN tables
       /\ DOMAIN store0[t].rows \subseteq DOMAIN tables[t].rows
       /\ store0[t].cols \subseteq tables[t].cols

\* C19: on a store that fails no statement, no insert is executed for a
\* vector id that has a row in the table, and no add-column for a period
\* that is a column of the table.  (That a table holds one row per vector id
\* and one column per name is the primary key and the catalog of the store.)
NoDuplicateIssued ==
  [][ faults' = 0 =>
        \A i \in 1..Len(NewOps) :
          LET o == NewOps[i]
          IN /\ o.kind = "INSERT" => ~HasRow(tables, o.table, o.vid)
             /\ o.kind = "ALTER" =>
                  ~(HasTable(tables, o.table) /\ o.col \in AllColumns(tables, o.table)) ]_vars

\* the statements that name a vector id, and those that name a period column
VectorOps == {"SELECT_VECTOR", "INSERT", "UPDATE", "SELECT_VALUE"}

PeriodOps == {"SELECT_COLUMNS", "ALTER", "UPDATE", "SELECT_VALUE"}

\* the statements executed by the step just taken are those of the product,
\* the vector and the period that the loops have just reached
StepOpsBelong ==
  \A i \in 1..Len(NewOps) :
    LET o == NewOps[i]
    IN /\ ci' \in 1..Len(data'.items)
       /\ o.table = Str(data'.items[ci'].id)
       /\ o.kind \in VectorOps =>
            /\ si' \in 1..Len(data'.items[ci'].items)
            /\ o.vid = data'.items[ci'].items[si'].id
       /\ o.kind \in PeriodOps =>
            /\ si' \in 1..Len(data'.items[ci'].items)
            /\ pi' \in 1..Len(data'.items[ci'].items[si'].items)
            /\ o.col = data'.items[ci'].items[si'].items[pi'].date

\* a step that executes statements has moved on in the input: to the next
\* product, or to the next vector of the same product, or to the next
\* period of the same vector
LoopsAdvance ==
  NewOps # <<>> =>
    \/ ci' = ci + 1
    \/ ci' = ci /\ si' = si + 1
    \/ ci' = ci /\ si' = si /\ pi' = pi + 1

\* a run on the data of the run before it and on the database that run
\* started from, with no statement failed by the store in either, has
\* executed the statements of that run, in the same order
SameInputSameOps ==
  ( /\ run >= 2 /\ RunOver /\ changed = {} /\ faults = 0
    /\ prev.outcome \in {"done", "aborted"} /\ store0 = prev.store0 ) =>
    ops = prev.ops

DefinitionOf(key) ==
  IF key \in DOMAIN definitions THEN definitions[key] ELSE NoDefinition

\* C21: a table that update_database creates carries the definition the
\* definitions hold for its product id, and a row that _process_vector
\* inserts the one they hold for its vector id, exactly as given; without an
\* entry it is "No Definition", and nothing is raised.
DefinitionSentinel ==
  [][ \A i \in 1..Len(NewOps) :
        LET o == NewOps[i]
        IN /\ (o.kind = "CREATE" /\ o.ok) =>
                /\ raised' = "none"
                /\ tables'[o.table].comment = DefinitionOf(data'.items[ci'].id)
           /\ (o.kind = "INSERT" /\ o.ok) =>
                /\ raised' = "none"
                /\ tables'[o.table].rows[o.vid].definition
                     = DefinitionOf(<<"int", o.vid>>) ]_vars

\* C22: on a store that fails no statement, an add-column that
\* _process_series executes for a period adds the column and is followed at
\* once, with no read in between, by the update of the cell (vector, period)
\* with the value supplied; in every state values_added <= columns_added, and
\* when update_database has returned the two are equal.
ColumnThenWrite ==
  [][ /\ faults' = 0 =>
           \A i \in 1..Len(NewOps) :
             NewOps[i].kind = "ALTER" =>
               /\ NewOps[i].ok
               /\ i < Len(NewOps)
               /\ LET u == NewOps[i + 1]
                      v == data'.items[ci'].items[si']
                  IN /\ u.kind = "UPDATE" /\ u.sent /\ u.ok
                     /\ u.table = NewOps[i].table /\ u.col = NewOps[i].col
                     /\ u.vid = v.id /\ u.value = v.items[pi'].value
      /\ stats'.values_added <= stats'.columns_added
      /\ pc' = "done" => stats'.values_added = stats'.columns_added ]_vars

\* the value written by the calls of _update_value that C23 asks about
NewValue == <<2>>

\* C23: where _process_series calls them, on a store that fails no
\* statement: _add_column for a period that is no column of the table adds
\* the column, null in every row, and leaves every cell there was and every
\* other table as it is; _update_value sets the cell (vector, period) to the
\* value and leaves every other cell, row and table as it is.
FrameOfWrites ==
  (pc = "series" /\ HasTable(tables, Str(data.items[ci].id))) =>
    LET t == Str(data.items[ci].id)
        vid == data.items[ci].items[si].id
        ac == _add_column(M, t, D2020, FALSE)
        uv == _update_value(M, t, vid, D2020, NewValue, FALSE)
    IN /\ D2020 \notin AllColumns(tables, t) =>
            /\ ac.exc = "none"
            /\ DOMAIN ac.m.db = DOMAIN tables
            /\ \A x \in DOMAIN tables \ {t} : ac.m.db[x] = tables[x]
            /\ ac.m.db[t].cols = tables[t].cols \cup {D2020}
            /\ DOMAIN ac.m.db[t].rows = DOMAIN tables[t].rows
            /\ \A v \in DOMAIN tables[t].rows :
                 /\ ac.m.db[t].rows[v].cells[D2020] = None
                 /\ \A c \in tables[t].cols :
                      ac.m.db[t].rows[v].cells[c] = tables[t].rows[v].cells[c]
       /\ HasCell(tables, t, vid, D2020) =>
            /\ uv.exc = "none"
            /\ uv.m.db = [tables EXCEPT ![t].rows[vid].cells[D2020] = NewValue]

\* this run inserted the row of vector vid into table t
InsertedInThisRun(t, vid) ==
  \E i \in 1..Len(ops) :
    ops[i].kind = "INSERT" /\ ops[i].ok /\ ops[i].table = t /\ ops[i].vid = vid

\* C24: on a store that fails no statement, a row inserted into a table
\* that has period columns holds null in each of them; when _process_series
\* then handles such a period for that row, a value that is not null is
\* written to the cell and counted in values_updated and not in
\* values_added, and a null value is not written and changes no counter.
NewRowUnderExistingColumns ==
  [][ faults' = 0 =>
        /\ \A i \in 1..Len(NewOps) :
             (NewOps[i].kind = "INSERT" /\ NewOps[i].ok) =>
               \A c \in tables'[NewOps[i].table].cols :
                 tables'[NewOps[i].table].rows[NewOps[i].vid].cells[c] = None
        /\ (pc = "series" /\ pi' = pi + 1) =>
             LET t == Str(data'.items[ci].id)
                 v == data'.items[ci].items[si]
                 e == v.items[pi']
             IN ( /\ Grammar(Str(<<"int", v.id>>)) /\ Grammar(e.date)
                  /\ InsertedInThisRun(t, v.id)
                  /\ HasCell(tables, t, v.id, e.date)
                  /\ tables[t].rows[v.id].cells[e.date] = None ) =>
                  IF e.value = None
                  THEN tables' = tables /\ stats' = stats /\ raised' = "none"
                  ELSE /\ tables' = [tables EXCEPT ![t].rows[v.id].cells[e.date] = e.value]
                       /\ stats' = [stats EXCEPT !.values_updated = @ + 1]
                       /\ raised' = "none" ]_vars

\* every product, vector and period read from the data whose name is of the
\* grammar is in the database db, each cell with the value supplied
InputStored(db) ==
  \A i \in 1..Len(data.items) :
    LET c == data.items[i]
        t == Str(c.id)
    IN Grammar(t) =>
         /\ HasTable(db, t)
         /\ \A j \in 1..Len(c.items) :
              /\ HasRow(db, t, c.items[j].id)
              /\ \A k \in 1..Len(c.items[j].items) :
                   LET e == c.items[j].items[k]
                   IN Grammar(e.date) =>
                        /\ HasColumn(db, t, e.date)
                        /\ db[t].rows[c.items[j].id].cells[e.date] = e.value

\* C25: when a run has aborted and update_database is run again with the
\* same data and definitions, and the store fails no statement of the
\* second run, the second run ends with every valid product, vector and
\* period of the input in the database with its value (stated for data
\* whose vector ids are of the grammar).
RecoveryByRerun ==
  ( /\ run >= 2 /\ prev.outcome = "aborted" /\ changed = {}
    /\ faults = prev.faults /\ RunOver /\ VectorIdsValid ) =>
    InputStored(tables)

\* C26: in run_process, once the DatabaseManager is constructed,
\* close_connection is not called while update_database runs and has been
\* called exactly once when run_process is left, whether update_database
\* returned or raised, and an error is re-raised; when the constructor
\* raised, no statement has been executed, the database is untouched,
\* close_connection has not been called and the error is re-raised.
ConnectionRelease ==
  /\ pc \in {"collections", "vectors", "series"} => closes = 0
  /\ pc = "done" => closes = 1 /\ raised = "none"
  /\ pc = "aborted" => closes = 1 /\ raised # "none"
  /\ pc = "unconnected" =>
       closes = 0 /\ raised # "none" /\ ops = <<>> /\ tables = store0

\* a run that closed its connection once after a database error, following
\* a run whose constructor raised and closed nothing
ConnectionReleaseWitness ==
  /\ run = 2 /\ prev.outcome = "unconnected"
  /\ pc = "aborted" /\ raised = "SQLAlchemyError" /\ closes = 1
  /\ \E i \in 1..Len(ops) : ops[i].kind \in Mutating /\ ops[i].ok

Counters ==
  {"tables_created", "vectors_added", "columns_added", "values_added", "values_updated"}

\* C27: the counters of a DatabaseManager are 0 when it is constructed and
\* no step decreases or resets one, also not a further call of
\* update_database on the same manager: the summary of a call holds at least
\* the counts of the call before it.
CountersMonotonic ==
  [][ /\ run = 0 => stats' = ZeroStats
      /\ run >= 1 => \A k \in Counters : stats'[k] >= stats[k]
      /\ (pc' = "done" /\ run' >= 2) =>
           /\ summary' = <<stats'>>
           /\ \A k \in Counters : summary'[1][k] >= prev'.stats[k] ]_vars

\* a second call on the same manager that executed no write and returned
\* with the table and the row of the first call in its summary
CountersMonotonicWitness ==
  /\ run = 2 /\ pc = "done"
  /\ prev.outcome = "done"
  /\ prev.stats.tables_created = 1 /\ prev.stats.vectors_added = 1
  /\ \A i \in 1..Len(ops) : ops[i].kind \notin Mutating
  /\ summary = <<stats>>
  /\ stats.tables_created = 1 /\ stats.vectors_added = 1

====
